---- MODULE Spec2Model ----
(***************************************************************************)
(* Model of package godocker (src/docker.go): a facade over the docker     *)
(* engine client.  Every exported operation is one blocking call; the      *)
(* model records, for the call in progress, the inputs, what the engine    *)
(* and the filesystem answered, the ordered log of the external effects    *)
(* (requests, stream scan, closes), the request that was sent and the      *)
(* value returned.                                                         *)
(***************************************************************************)
EXTENDS Integers, Sequences, FiniteSets, TLC

VARIABLES pc, op, arg, fs, engine, events, request, tarOptions, ret, scanned

vars == <<pc, op, arg, fs, engine, events, request, tarOptions, ret, scanned>>

(* ------------------------------ bounds --------------------------------- *)
MaxStream == 2
MaxPatterns == 2
MaxImages == 2

SeqUpTo(S, n) == UNION {[1..k -> S] : k \in 0..n}
Maps(K, V) == UNION {[S -> V] : S \in SUBSET K}
Range(s) == {s[i] : i \in DOMAIN s}

(* ------------------------------ errors --------------------------------- *)
\* A Go error value is a tuple of strings; Nil is the nil error.
Nil == <<"nil">>
EngineErrs == {<<"client", "connection refused">>, <<"client", "no such image">>}
NilDeref == <<"runtime", "invalid memory address or nil pointer dereference">>
DecodeErr == <<"json", "SyntaxError">>
\* err.Error(): the text of an error, as %s / %v formats it
ErrorText(err) == Tail(err)
\* fmt.Errorf(format, a): a NEW error value whose text embeds the argument
Errorf(format, a) == <<"fmt.Errorf", format>> \o a
\* errors.New(msg) of github.com/pkg/errors
ErrorsNew(msg) == <<"errors.New", msg>>

(* --------------------------- response stream --------------------------- *)
\* One element of the engine's JSON stream: dec = FALSE is a value that
\* json.Decoder cannot decode into a JSONMessage; Error = "nil" is a nil
\* *JSONError; ErrorMessage = "" is the empty string.
Progress == [dec |-> TRUE, Error |-> "nil", ErrorMessage |-> ""]
Messages ==
    { Progress,
      [dec |-> TRUE, Error |-> "E1", ErrorMessage |-> ""],
      [dec |-> TRUE, Error |-> "nil", ErrorMessage |-> "M1"],
      [dec |-> TRUE, Error |-> "E2", ErrorMessage |-> "M2"],
      [dec |-> FALSE, Error |-> "nil", ErrorMessage |-> ""] }
Streams == SeqUpTo(Messages, MaxStream)

\* Variant: an ErrorMessage-only message is skipped like a progress message.
RECURSIVE detectFromSkipsErrorMessage(_, _)
detectFromSkipsErrorMessage(in, i) ==
    IF i > Len(in) THEN [err |-> Nil, consumed |-> Len(in)]
    ELSE IF ~in[i].dec THEN [err |-> DecodeErr, consumed |-> i]
    ELSE IF in[i].Error # "nil"
         THEN [err |-> <<"JSONError", in[i].Error>>, consumed |-> i]
    ELSE detectFromSkipsErrorMessage(in, i + 1)

\* The for loop of detectErrorMessage from the i-th message on.
RECURSIVE detectFrom(_, _)
detectFrom(in, i) ==
    IF i > Len(in) THEN [err |-> Nil, consumed |-> Len(in)]          \* io.EOF: break
    ELSE IF ~in[i].dec THEN [err |-> DecodeErr, consumed |-> i]     \* return err
    ELSE IF in[i].Error # "nil"
         THEN [err |-> <<"JSONError", in[i].Error>>, consumed |-> i] \* return jm.Error
    ELSE IF in[i].ErrorMessage # ""
         THEN [err |-> ErrorsNew(in[i].ErrorMessage), consumed |-> i]
    ELSE detectFrom(in, i + 1)

detectErrorMessageSkipsErrorMessage(in) == detectFromSkipsErrorMessage(in, 1)

detectErrorMessage(in) == detectFrom(in, 1)

(* ------------------------- engine outcomes ----------------------------- *)
\* What the engine client hands back for ImageBuild / ImagePull / ImagePush:
\* an error (or Nil) and possibly a response body.  A successful call always
\* carries a body.
StreamOutcomes ==
    { o \in [err : EngineErrs \cup {Nil}, hasBody : BOOLEAN, stream : Streams] :
        /\ (o.err = Nil => o.hasBody)
        /\ (~o.hasBody => o.stream = <<>>) }

\* Outcome of a function: the returned error (or the panic), the ordered
\* external effects, how many stream messages were decoded.
Returned(err, ev, n) == [status |-> "returned", err |-> err, events |-> ev, consumed |-> n]
Panicked(ev) == [status |-> "panicked", err |-> NilDeref, events |-> ev, consumed |-> 0]

\* Variant of Pull: a failed request is issued a second time.
PullRetries(o) ==
    IF o.err # Nil
    THEN Returned(o.err,
                  <<"ImagePull", "ImagePull">> \o (IF o.hasBody THEN <<"closeBody">> ELSE <<>>), 0)
    ELSE LET d == detectErrorMessage(o.stream)
         IN Returned(d.err, <<"ImagePull", "scan", "closeBody">>, d.consumed)

Pull(o) ==
    IF o.err # Nil
    THEN Returned(o.err,
                  <<"ImagePull">> \o (IF o.hasBody THEN <<"closeBody">> ELSE <<>>), 0)
    ELSE LET d == detectErrorMessage(o.stream)
         IN Returned(d.err, <<"ImagePull", "scan", "closeBody">>, d.consumed)

Push(o) ==
    IF o.err # Nil
    THEN Returned(o.err,
                  <<"ImagePush">> \o (IF o.hasBody THEN <<"closeBody">> ELSE <<>>), 0)
    ELSE LET d == detectErrorMessage(o.stream)
         IN Returned(d.err, <<"ImagePush", "scan", "closeBody">>, d.consumed)

\* Variant of Rmi: the client's error is swallowed.
RmiSwallows(err) == Returned(Nil, <<"ImageRemove">>, 0)

Tag(err) == Returned(IF err # Nil THEN err ELSE Nil, <<"ImageTag">>, 0)

Rmi(err) == Returned(IF err # Nil THEN err ELSE Nil, <<"ImageRemove">>, 0)

(* ------------------------------- List ---------------------------------- *)
FilterKeys == {"dangling", "label"}
FilterValues == {"true", "a=b"}
Filters == Maps(FilterKeys, FilterValues)

\* filters.NewArgs(): no field; filters.Args maps a key to its set of values
NewArgs == [k \in {} |-> {}]
\* args.Add(k, v)
ArgsAdd(args, k, v) ==
    [x \in DOMAIN args \cup {k} |->
        IF x = k THEN (IF k \in DOMAIN args THEN args[k] ELSE {}) \cup {v}
        ELSE args[x]]

RECURSIVE AddRange(_, _, _)
AddRange(args, filter, keys) ==
    IF keys = {} THEN args
    ELSE LET k == CHOOSE x \in keys : TRUE
         IN AddRange(ArgsAdd(args, k, filter[k]), filter, keys \ {k})

\* Variant: the key is added in place of the value.
FilterArgsAddsKey(filter) == [k \in DOMAIN filter |-> {k}]

\* for k, v := range filter { args.Add(k, v) }
FilterArgs(filter) == AddRange(NewArgs, filter, DOMAIN filter)

\* Records of the engine's types.ImageSummary
EngineImages ==
    { [Containers |-> 1, Created |-> 100, ID |-> "sha256:aa", Labels |-> [k \in {"m"} |-> "x"],
       ParentID |-> "sha256:p1", RepoDigests |-> <<"u@sha256:d1">>, RepoTags |-> <<"u:16.04">>,
       SharedSize |-> 7, Size |-> 50, VirtualSize |-> 60],
      [Containers |-> 0 - 1, Created |-> 200, ID |-> "sha256:bb", Labels |-> [k \in {} |-> "x"],
       ParentID |-> "", RepoDigests |-> <<>>, RepoTags |-> <<"a:1", "a:2">>,
       SharedSize |-> 0 - 1, Size |-> 80, VirtualSize |-> 90] }

ListOutcomes ==
    { o \in [err : EngineErrs \cup {Nil}, images : SeqUpTo(EngineImages, MaxImages)] :
        o.err # Nil => o.images = <<>> }

\* Variant: Size and VirtualSize are exchanged.
CopySummarySwapsSizes(summary) ==
    [Containers |-> summary.Containers, Created |-> summary.Created, ID |-> summary.ID,
     Labels |-> summary.Labels, ParentID |-> summary.ParentID,
     RepoDigests |-> summary.RepoDigests, RepoTags |-> summary.RepoTags,
     SharedSize |-> summary.SharedSize, Size |-> summary.VirtualSize,
     VirtualSize |-> summary.Size]

\* &ImageSummary{...}: the field-by-field copy
CopySummary(summary) ==
    [Containers |-> summary.Containers, Created |-> summary.Created, ID |-> summary.ID,
     Labels |-> summary.Labels, ParentID |-> summary.ParentID,
     RepoDigests |-> summary.RepoDigests, RepoTags |-> summary.RepoTags,
     SharedSize |-> summary.SharedSize, Size |-> summary.Size,
     VirtualSize |-> summary.VirtualSize]

List(filter, o) ==
    LET args == FilterArgs(filter)
        req == [api |-> "ImageList", Filters |-> args]
    IN IF o.err # Nil
       THEN [status |-> "returned", err |-> o.err, list |-> <<>>,
             events |-> <<"ImageList">>, request |-> req]
       ELSE [status |-> "returned", err |-> Nil,
             list |-> [i \in 1..Len(o.images) |-> CopySummary(o.images[i])],
             events |-> <<"ImageList">>, request |-> req]

(* ----------------------------- filesystem ------------------------------ *)
\* A path is the sequence of its components ("build/Dockerfile" is
\* <<"build", "Dockerfile">>); "" is the empty sequence.
defaultDockerfile == <<"Dockerfile">>
DotPath == <<".">>
DockerIgnoreName == <<".dockerignore">>
ContextDirectory == <<"docker-build">>
Dockerfiles == {<<>>, defaultDockerfile, <<"build", "Dockerfile">>}

\* Errors of the os and filepath calls
ENOENT(call) == <<"PathError", call, "no such file or directory">>
EACCES(call) == <<"PathError", call, "permission denied">>
GetwdErr == <<"SyscallError", "getwd", "no such file or directory">>
ReadErr == <<"PathError", "read", "input/output error">>
StatErr == <<"builder", "can't stat 'docker-build/secret'">>
TarErr == <<"PathError", "lstat docker-build", "no such file or directory">>
\* os.IsNotExist(err): the error under a *PathError, *LinkError or
\* *SyscallError is ENOENT
IsNotExist(err) ==
    /\ err # Nil
    /\ err[1] \in {"PathError", "LinkError", "SyscallError"}
    /\ err[Len(err)] = "no such file or directory"

\* A line of .dockerignore as dockerignore.ReadAll returns it: neg is a
\* leading "!", dirs the components of the pattern, "*" a wildcard component.
Patterns ==
    { [neg |-> FALSE, dirs |-> <<".dockerignore">>],
      [neg |-> FALSE, dirs |-> <<"Dockerfile">>],
      [neg |-> TRUE, dirs |-> <<"Dockerfile">>],
      [neg |-> FALSE, dirs |-> <<"*">>],
      [neg |-> FALSE, dirs |-> <<"build">>] }

\* The state of the filesystem that CreateTar consults: the outcome of
\* filepath.Abs, of os.Lstat on the Dockerfile path and on its lower-case
\* variant, of os.Open and dockerignore.ReadAll on .dockerignore (with the
\* patterns read), of builder.ValidateContextDirectory and of
\* archive.TarWithOptions.
FileSystems ==
    { f \in [absErr : {Nil, GetwdErr},
             lstatDockerfile : {Nil, ENOENT("lstat"), EACCES("lstat")},
             lstatLowercase : {Nil, ENOENT("lstat"), EACCES("lstat")},
             ignoreOpen : {Nil, ENOENT("open"), EACCES("open")},
             ignoreRead : {Nil, ReadErr},
             patterns : SeqUpTo(Patterns, MaxPatterns),
             validateErr : {Nil, StatErr},
             tarErr : {Nil, TarErr}] :
        /\ (f.ignoreOpen # Nil => f.ignoreRead = Nil)
        /\ (f.ignoreOpen # Nil \/ f.ignoreRead # Nil => f.patterns = <<>>) }
\* The lower-case variant is looked up only when no dockerfile is named.
FileSystemsFor(dockerfile) ==
    { f \in FileSystems : dockerfile # <<>> => f.lstatLowercase = ENOENT("lstat") }

\* One component of a pattern against one component of a path
ComponentMatch(p, c) == p = "*" \/ p = c
\* regexpMatch(pattern, path) for patterns without "**": anchored, a "*"
\* never crosses a separator
regexpMatch(pattern, file) ==
    /\ Len(pattern) = Len(file)
    /\ \A i \in 1..Len(pattern) : ComponentMatch(pattern[i], file[i])

\* The loop of fileutils.OptimizedMatches from the i-th pattern on
RECURSIVE MatchesFrom(_, _, _, _)
MatchesFrom(file, patterns, i, matched) ==
    IF i > Len(patterns) THEN matched
    ELSE LET pattern == patterns[i].dirs
             parentPathDirs == SubSeq(file, 1, Len(file) - 1)
             direct == regexpMatch(pattern, file)
             viaParent ==
                 /\ ~direct
                 /\ Len(file) > 1
                 /\ Len(pattern) <= Len(parentPathDirs)
                 /\ regexpMatch(pattern, SubSeq(parentPathDirs, 1, Len(pattern)))
         IN MatchesFrom(file, patterns, i + 1,
                        IF direct \/ viaParent THEN ~patterns[i].neg ELSE matched)

\* fileutils.Matches(file, patterns); CreateTar drops its error
Matches(file, patterns) ==
    IF file = DotPath THEN FALSE ELSE MatchesFrom(file, patterns, 1, FALSE)

\* Variant: the files are kept only when both are matched.
IncludesNeedsBoth(dockerfileName, excludes) ==
    IF Matches(DockerIgnoreName, excludes) /\ Matches(dockerfileName, excludes)
    THEN <<DotPath, DockerIgnoreName, dockerfileName>>
    ELSE <<DotPath>>

\* includes := []string{"."} ... append(includes, ".dockerignore", dockerfileName)
Includes(dockerfileName, excludes) ==
    LET keepThem1 == Matches(DockerIgnoreName, excludes)
        keepThem2 == Matches(dockerfileName, excludes)
    IN IF keepThem1 \/ keepThem2
       THEN <<DotPath>> \o <<DockerIgnoreName, dockerfileName>>
       ELSE <<DotPath>>

\* Variant: the open or read error is wrapped in a new error.
OpenDockerIgnoreWraps(f) ==
    IF f.ignoreOpen # Nil
    THEN IF ~IsNotExist(f.ignoreOpen)
         THEN [err |-> Errorf("Cannot open .dockerignore: %s", ErrorText(f.ignoreOpen)),
               excludes |-> <<>>]
         ELSE [err |-> Nil, excludes |-> <<>>]
    ELSE IF f.ignoreRead # Nil
         THEN [err |-> Errorf("Cannot read .dockerignore: %s", ErrorText(f.ignoreRead)),
               excludes |-> <<>>]
    ELSE [err |-> Nil, excludes |-> f.patterns]

\* os.Open(dockerIgnorePath) and dockerignore.ReadAll
OpenDockerIgnore(f) ==
    IF f.ignoreOpen # Nil
    THEN IF ~IsNotExist(f.ignoreOpen)
         THEN [err |-> f.ignoreOpen, excludes |-> <<>>]
         ELSE [err |-> Nil, excludes |-> <<>>]
    ELSE IF f.ignoreRead # Nil THEN [err |-> f.ignoreRead, excludes |-> <<>>]
    ELSE [err |-> Nil, excludes |-> f.patterns]

NoTarOptions == [called |-> FALSE, ExcludePatterns |-> <<>>, IncludeFiles |-> <<>>]
TarFailed(err) == [err |-> err, options |-> NoTarOptions, events |-> <<>>]

\* CreateTar(contextDirectory, dockerfile) on the filesystem f.
\* filepath.Rel of two absolute paths and CanonicalTarNameForPath (on unix)
\* cannot fail; the second filepath.Abs fails only where the first did.
CreateTar(contextDirectory, dockerfile, f) ==
    LET \* dockerfile == "": Dockerfile, or dockerfile when only that one exists
        useLower == dockerfile = <<>> /\ IsNotExist(f.lstatDockerfile) /\ f.lstatLowercase = Nil
        \* dockerfileName after filepath.Rel(absContextDirectory, filename)
        relName == IF dockerfile = <<>>
                   THEN (IF useLower THEN <<"dockerfile">> ELSE defaultDockerfile)
                   ELSE dockerfile
        origDockerfile == IF dockerfile = <<>> THEN relName ELSE contextDirectory \o dockerfile
        \* os.Lstat(filename)
        lstatErr == IF useLower THEN f.lstatLowercase ELSE f.lstatDockerfile
        ignore == OpenDockerIgnore(f)
        options == [called |-> TRUE, ExcludePatterns |-> ignore.excludes,
                    IncludeFiles |-> Includes(relName, ignore.excludes)]
    IN IF f.absErr # Nil THEN TarFailed(f.absErr)
       ELSE IF IsNotExist(lstatErr)
            THEN TarFailed(Errorf("Cannot locate Dockerfile: %s", origDockerfile))
       ELSE IF ignore.err # Nil THEN TarFailed(ignore.err)
       ELSE IF f.validateErr # Nil
            THEN TarFailed(Errorf("Error checking context is accessible: '%s'. Please check permissions and try again.",
                                  ErrorText(f.validateErr)))
       ELSE [err |-> f.tarErr, options |-> options, events |-> <<"TarWithOptions">>]

(* ------------------------------- Build --------------------------------- *)
ImagePaths == {"127.0.0.1/public/build-test:master", "ubuntu:16.04"}
\* map[string]*string: a value is a string or the nil pointer
BuildArgMaps == Maps({"HTTP_PROXY"}, {"http://proxy", "nilptr"})

NoRequest == [api |-> "none"]
NotContacted == [err |-> Nil, hasBody |-> FALSE, stream |-> <<>>]

BuildOptions(imagePath, args) ==
    [api |-> "ImageBuild", Tags |-> <<imagePath>>, NoCache |-> TRUE, Remove |-> TRUE,
     ForceRemove |-> TRUE, PullParent |-> TRUE, Dockerfile |-> defaultDockerfile,
     BuildArgs |-> args]

\* Variant of Build: the engine is contacted although CreateTar failed, and
\* the archive is left open when the stream carries an error.
BuildIgnoresTar(contextDirectory, imagePath, args, f, o) ==
    LET t == CreateTar(contextDirectory, defaultDockerfile, f)
        req == BuildOptions(imagePath, args)
        d == detectErrorMessage(o.stream)
    IN IF t.err # Nil
       THEN [status |-> "returned", err |-> t.err, events |-> t.events \o <<"ImageBuild">>,
             consumed |-> 0, request |-> req, options |-> t.options]
       ELSE IF ~o.hasBody
       THEN [status |-> "panicked", err |-> NilDeref,
             events |-> t.events \o <<"ImageBuild", "closeNilBody", "closeCtx">>,
             consumed |-> 0, request |-> req, options |-> t.options]
       ELSE IF o.err # Nil
       THEN [status |-> "returned", err |-> o.err,
             events |-> t.events \o <<"ImageBuild", "closeBody", "closeCtx">>,
             consumed |-> 0, request |-> req, options |-> t.options]
       ELSE [status |-> "returned", err |-> d.err,
             events |-> t.events \o <<"ImageBuild", "scan", "closeBody">>
                        \o (IF d.err = Nil THEN <<"closeCtx">> ELSE <<>>),
             consumed |-> d.consumed, request |-> req, options |-> t.options]

\* Build.  The deferred calls run last-in first-out at the return:
\* response.Body.Close(), then buildCtx.Close().  "defer response.Body.Close()"
\* is executed before err is looked at: with a nil Body it panics with a nil
\* dereference, and the deferred buildCtx.Close() runs while the panic unwinds.
Build(contextDirectory, imagePath, args, f, o) ==
    LET t == CreateTar(contextDirectory, defaultDockerfile, f)
        req == BuildOptions(imagePath, args)
        d == detectErrorMessage(o.stream)
    IN IF t.err # Nil
       THEN [status |-> "returned", err |-> t.err, events |-> t.events,
             consumed |-> 0, request |-> NoRequest, options |-> t.options]
       ELSE IF ~o.hasBody
       THEN [status |-> "panicked", err |-> NilDeref,
             events |-> t.events \o <<"ImageBuild", "closeNilBody", "closeCtx">>,
             consumed |-> 0, request |-> req, options |-> t.options]
       ELSE IF o.err # Nil
       THEN [status |-> "returned", err |-> o.err,
             events |-> t.events \o <<"ImageBuild", "closeBody", "closeCtx">>,
             consumed |-> 0, request |-> req, options |-> t.options]
       ELSE [status |-> "returned", err |-> d.err,
             events |-> t.events \o <<"ImageBuild", "scan", "closeBody", "closeCtx">>,
             consumed |-> d.consumed, request |-> req, options |-> t.options]

(* ------------------------------ actions -------------------------------- *)
NoArg == [contextDirectory |-> <<>>, dockerfile |-> <<>>, imagePath |-> "",
          newImagePath |-> "", args |-> <<>>, filter |-> <<>>]
NoFS == [absErr |-> Nil, lstatDockerfile |-> Nil, lstatLowercase |-> Nil, ignoreOpen |-> Nil,
         ignoreRead |-> Nil, patterns |-> <<>>, validateErr |-> Nil, tarErr |-> Nil]
NoEngine == [err |-> Nil, hasBody |-> FALSE, stream |-> <<>>, images |-> <<>>]
NoRet == [status |-> "none", err |-> Nil, list |-> <<>>]

StreamEngine(o) == [err |-> o.err, hasBody |-> o.hasBody, stream |-> o.stream, images |-> <<>>]
After(status) == IF status = "panicked" THEN "crashed" ELSE "done"

Init ==
    /\ pc = "idle"
    /\ op = "none"
    /\ arg = NoArg
    /\ fs = NoFS
    /\ engine = NoEngine
    /\ events = <<>>
    /\ request = NoRequest
    /\ tarOptions = NoTarOptions
    /\ ret = NoRet
    /\ scanned = 0

BuildCall ==
    /\ pc = "idle"
    /\ \E a \in BuildArgMaps, f \in FileSystemsFor(defaultDockerfile) :
         \E o \in (IF CreateTar(ContextDirectory, defaultDockerfile, f).err = Nil
                   THEN StreamOutcomes ELSE {NotContacted}) :
           LET imagePath == "127.0.0.1/public/build-test:master"
               r == Build(ContextDirectory, imagePath, a, f, o)
           IN /\ op' = "Build"
              /\ arg' = [NoArg EXCEPT !.contextDirectory = ContextDirectory,
                                      !.dockerfile = defaultDockerfile,
                                      !.imagePath = imagePath, !.args = a]
              /\ fs' = f
              /\ engine' = StreamEngine(o)
              /\ events' = r.events
              /\ request' = r.request
              /\ tarOptions' = r.options
              /\ ret' = [status |-> r.status, err |-> r.err, list |-> <<>>]
              /\ scanned' = r.consumed
              /\ pc' = After(r.status)

CreateTarCall ==
    /\ pc = "idle"
    /\ \E df \in Dockerfiles : \E f \in FileSystemsFor(df) :
         LET t == CreateTar(ContextDirectory, df, f)
         IN /\ op' = "CreateTar"
            /\ arg' = [NoArg EXCEPT !.contextDirectory = ContextDirectory, !.dockerfile = df]
            /\ fs' = f
            /\ events' = t.events
            /\ tarOptions' = t.options
            /\ ret' = [status |-> "returned", err |-> t.err, list |-> <<>>]
            /\ pc' = "done"
            /\ UNCHANGED <<engine, request, scanned>>

PullCall ==
    /\ pc = "idle"
    /\ \E imagePath \in ImagePaths, o \in StreamOutcomes :
         LET r == Pull(o)
         IN /\ op' = "Pull"
            /\ arg' = [NoArg EXCEPT !.imagePath = imagePath]
            /\ engine' = StreamEngine(o)
            /\ events' = r.events
            /\ request' = [api |-> "ImagePull", ref |-> imagePath]
            /\ ret' = [status |-> r.status, err |-> r.err, list |-> <<>>]
            /\ scanned' = r.consumed
            /\ pc' = After(r.status)
            /\ UNCHANGED <<fs, tarOptions>>

PushCall ==
    /\ pc = "idle"
    /\ \E imagePath \in ImagePaths, o \in StreamOutcomes :
         LET r == Push(o)
         IN /\ op' = "Push"
            /\ arg' = [NoArg EXCEPT !.imagePath = imagePath]
            /\ engine' = StreamEngine(o)
            /\ events' = r.events
            /\ request' = [api |-> "ImagePush", ref |-> imagePath]
            /\ ret' = [status |-> r.status, err |-> r.err, list |-> <<>>]
            /\ scanned' = r.consumed
            /\ pc' = After(r.status)
            /\ UNCHANGED <<fs, tarOptions>>

ListCall ==
    /\ pc = "idle"
    /\ \E filter \in Filters, o \in ListOutcomes :
         LET r == List(filter, o)
         IN /\ op' = "List"
            /\ arg' = [NoArg EXCEPT !.filter = filter]
            /\ engine' = [NoEngine EXCEPT !.err = o.err, !.images = o.images]
            /\ events' = r.events
            /\ request' = r.request
            /\ ret' = [status |-> r.status, err |-> r.err, list |-> r.list]
            /\ pc' = After(r.status)
            /\ UNCHANGED <<fs, tarOptions, scanned>>

TagCall ==
    /\ pc = "idle"
    /\ \E imagePath \in ImagePaths, newImagePath \in ImagePaths, e \in EngineErrs \cup {Nil} :
         LET r == Tag(e)
         IN /\ op' = "Tag"
            /\ arg' = [NoArg EXCEPT !.imagePath = imagePath, !.newImagePath = newImagePath]
            /\ engine' = [NoEngine EXCEPT !.err = e]
            /\ events' = r.events
            /\ request' = [api |-> "ImageTag", ref |-> imagePath, newRef |-> newImagePath]
            /\ ret' = [status |-> r.status, err |-> r.err, list |-> <<>>]
            /\ pc' = After(r.status)
            /\ UNCHANGED <<fs, tarOptions, scanned>>

RmiCall ==
    /\ pc = "idle"
    /\ \E imagePath \in ImagePaths, e \in EngineErrs \cup {Nil} :
         LET r == Rmi(e)
         IN /\ op' = "Rmi"
            /\ arg' = [NoArg EXCEPT !.imagePath = imagePath]
            /\ engine' = [NoEngine EXCEPT !.err = e]
            /\ events' = r.events
            /\ request' = [api |-> "ImageRemove", ref |-> imagePath]
            /\ ret' = [status |-> r.status, err |-> r.err, list |-> <<>>]
            /\ pc' = After(r.status)
            /\ UNCHANGED <<fs, tarOptions, scanned>>

\* The call has returned; the caller may issue the next one.  After a panic
\* the process is gone and nothing follows.
NextCall ==
    /\ pc = "done"
    /\ pc' = "idle"
    /\ op' = "none"
    /\ arg' = NoArg
    /\ fs' = NoFS
    /\ engine' = NoEngine
    /\ events' = <<>>
    /\ request' = NoRequest
    /\ tarOptions' = NoTarOptions
    /\ ret' = NoRet
    /\ scanned' = 0

Next ==
    \/ BuildCall
    \/ CreateTarCall
    \/ PullCall
    \/ PushCall
    \/ ListCall
    \/ TagCall
    \/ RmiCall
    \/ NextCall

Spec == Init /\ [][Next]_vars

(* ------------------------------ properties ----------------------------- *)
Requests == {"ImageBuild", "ImagePull", "ImagePush", "ImageList", "ImageTag", "ImageRemove"}
Count(ev, S) == Cardinality({i \in 1..Len(ev) : ev[i] \in S})
Terminated == pc \in {"done", "crashed"}
\* A stream message that makes the scan fail, and the failure it stands for
IsFailure(m) == ~m.dec \/ m.Error # "nil" \/ m.ErrorMessage # ""
FailureOf(m) ==
    IF ~m.dec THEN DecodeErr
    ELSE IF m.Error # "nil" THEN <<"JSONError", m.Error>>
    ELSE ErrorsNew(m.ErrorMessage)
\* The Dockerfile that CreateTar looks for is absent
DockerfileMissing ==
    IF arg.dockerfile = <<>>
    THEN IsNotExist(fs.lstatDockerfile) /\ fs.lstatLowercase # Nil
    ELSE IsNotExist(fs.lstatDockerfile)
\* The Dockerfile name relative to the context directory
RelDockerfile ==
    IF arg.dockerfile # <<>> THEN arg.dockerfile
    ELSE IF IsNotExist(fs.lstatDockerfile) /\ fs.lstatLowercase = Nil
         THEN <<"dockerfile">> ELSE <<"Dockerfile">>
\* The errors the filesystem calls produced
FsCallErrors ==
    {fs.absErr, fs.lstatDockerfile, fs.lstatLowercase, fs.ignoreOpen, fs.ignoreRead,
     fs.validateErr, fs.tarErr} \ {Nil}
ContextFailed == "TarWithOptions" \notin Range(events) \/ fs.tarErr # Nil

\* C1: for Build, Pull and Push, once the engine call has succeeded, the
\* operation fails iff the stream holds a message with an embedded error or an
\* undecodable one; the failure is that of the first such message, no later
\* message is decoded, and a stream without one (the empty one too) gives nil.
C1_ScanDecidesResult ==
    (Terminated /\ op \in {"Build", "Pull", "Push"}
       /\ Count(events, Requests) = 1 /\ engine.err = Nil)
    => LET bad == {i \in 1..Len(engine.stream) : IsFailure(engine.stream[i])}
       IN /\ ret.status = "returned"
          /\ (ret.err # Nil <=> bad # {})
          /\ (bad # {} => \E i \in bad :
                 /\ \A j \in bad : i <= j
                 /\ ret.err = FailureOf(engine.stream[i])
                 /\ scanned = i)
          /\ (bad = {} => ret.err = Nil /\ scanned = Len(engine.stream))
C1_Witness ==
    /\ pc = "done" /\ op = "Push" /\ engine.err = Nil
    /\ Len(engine.stream) = 2
    /\ engine.stream[1].ErrorMessage = "M1"
    /\ ~engine.stream[2].dec
    /\ ret.err = ErrorsNew("M1") /\ scanned = 1

\* C2: when the engine's image-build call fails and gives no usable response,
\* Build returns that same error to its caller and does not panic.
C2_BuildReturnsEngineError ==
    (Terminated /\ op = "Build" /\ "ImageBuild" \in Range(events)
       /\ engine.err # Nil /\ ~engine.hasBody)
    => (ret.status = "returned" /\ ret.err = engine.err)

\* C3: for Pull, Push, List, Tag and Rmi, an error of the engine client call
\* is returned as that very error, List returns no list with it and the
\* stream is not scanned; Tag and Rmi return nil when the client call does.
C3_ClientErrorPassedThrough ==
    (Terminated /\ op \in {"Pull", "Push", "List", "Tag", "Rmi"})
    => /\ (engine.err # Nil =>
             /\ ret.status = "returned"
             /\ ret.err = engine.err
             /\ ret.list = <<>>
             /\ "scan" \notin Range(events)
             /\ scanned = 0)
       /\ (op \in {"Tag", "Rmi"} /\ engine.err = Nil =>
             ret.status = "returned" /\ ret.err = Nil)
C3_Witness ==
    /\ pc = "done" /\ op = "Rmi"
    /\ engine.err = <<"client", "no such image">>
    /\ ret.err = engine.err

\* C4 (as stated): every failure of a filesystem step of the build-context
\* creation reaches the caller of CreateTar/Build as the unmodified error
\* value of the underlying filesystem call.
C4_FsErrorsUnmodified ==
    (Terminated /\ op \in {"Build", "CreateTar"} /\ ContextFailed)
    => ret.err \in FsCallErrors

\* C4 (amended): a failure of filepath.Abs, of opening or reading
\* .dockerignore and of the archive call reaches the caller unmodified; a
\* missing Dockerfile is reported by a new error "Cannot locate Dockerfile:
\* <name>" and a failed context check by a new error "Error checking context
\* is accessible: '<text of the original>'...".
C4_FsErrorsAmended ==
    (Terminated /\ op \in {"Build", "CreateTar"})
    => LET absOk == fs.absErr = Nil
           fileOk == absOk /\ ~DockerfileMissing
           ignoreOk == /\ fileOk
                       /\ (fs.ignoreOpen = Nil \/ IsNotExist(fs.ignoreOpen))
                       /\ fs.ignoreRead = Nil
           validOk == ignoreOk /\ fs.validateErr = Nil
       IN /\ (~absOk => ret.err = fs.absErr)
          /\ (absOk /\ DockerfileMissing =>
                ret.err = <<"fmt.Errorf", "Cannot locate Dockerfile: %s">>
                          \o (IF arg.dockerfile = <<>> THEN <<"Dockerfile">>
                              ELSE arg.contextDirectory \o arg.dockerfile))
          /\ (fileOk /\ fs.ignoreOpen # Nil /\ ~IsNotExist(fs.ignoreOpen) =>
                ret.err = fs.ignoreOpen)
          /\ (fileOk /\ fs.ignoreRead # Nil => ret.err = fs.ignoreRead)
          /\ (ignoreOk /\ fs.validateErr # Nil =>
                /\ ret.err[1] = "fmt.Errorf"
                /\ SubSeq(ret.err, 3, Len(ret.err)) = Tail(fs.validateErr)
                /\ ret.err \notin FsCallErrors)
          /\ (validOk /\ fs.tarErr # Nil => ret.err = fs.tarErr)
          /\ (validOk /\ fs.tarErr = Nil => ~ContextFailed)
C4_Witness ==
    /\ pc = "done" /\ op = "Build"
    /\ fs.absErr = Nil /\ fs.lstatDockerfile = Nil
    /\ fs.ignoreRead = ReadErr
    /\ ret.err = ReadErr

\* C5: each invocation of Build, Pull, Push, List, Tag or Rmi issues at most
\* one request to the engine, exactly one for Pull, Push, List, Tag and Rmi,
\* and none after a failed request or a failed scan.
C5_SingleRequest ==
    (Terminated /\ op \in {"Build", "Pull", "Push", "List", "Tag", "Rmi"})
    => /\ Count(events, Requests) <= 1
       /\ (op # "Build" => Count(events, Requests) = 1)
       /\ \A i \in 1..Len(events) :
            events[i] \in {"scan", "closeBody", "closeNilBody", "closeCtx"}
            => \A j \in i..Len(events) : events[j] \notin Requests
C5_Witness ==
    /\ pc = "done" /\ op = "Pull"
    /\ engine.err # Nil /\ engine.hasBody
    /\ Count(events, Requests) = 1

\* C6: when the engine's list call succeeds, List returns one summary per
\* record of the response, in the same order, each field equal to the
\* record's; an empty response gives an empty result and no error.
C6_ListCopiesRecords ==
    (Terminated /\ op = "List" /\ engine.err = Nil)
    => /\ ret.err = Nil
       /\ Len(ret.list) = Len(engine.images)
       /\ \A i \in 1..Len(engine.images) :
            /\ ret.list[i].Containers = engine.images[i].Containers
            /\ ret.list[i].Created = engine.images[i].Created
            /\ ret.list[i].ID = engine.images[i].ID
            /\ ret.list[i].Labels = engine.images[i].Labels
            /\ ret.list[i].ParentID = engine.images[i].ParentID
            /\ ret.list[i].RepoDigests = engine.images[i].RepoDigests
            /\ ret.list[i].RepoTags = engine.images[i].RepoTags
            /\ ret.list[i].SharedSize = engine.images[i].SharedSize
            /\ ret.list[i].Size = engine.images[i].Size
            /\ ret.list[i].VirtualSize = engine.images[i].VirtualSize
C6_Witness ==
    /\ pc = "done" /\ op = "List" /\ engine.err = Nil
    /\ Len(ret.list) = 2
    /\ ret.list[1].ID = "sha256:bb" /\ ret.list[2].ID = "sha256:aa"

\* C7: whenever Build, Pull or Push obtains a response stream, the stream is
\* closed exactly once before the operation returns, on every return path;
\* no close is attempted on a response that does not exist.
C7_BodyClosedExactlyOnce ==
    (Terminated /\ op \in {"Build", "Pull", "Push"} /\ Count(events, Requests) > 0)
    => /\ (engine.hasBody =>
             ret.status = "returned" /\ Count(events, {"closeBody"}) = 1)
       /\ (~engine.hasBody =>
             Count(events, {"closeBody", "closeNilBody"}) = 0)

\* C8: the filter arguments List sends hold exactly the (key, value) pairs of
\* the caller's filter map, and the build arguments Build sends are the
\* caller's args map.
C8_MapsForwarded ==
    Terminated
    => /\ (op = "List" =>
             /\ DOMAIN request.Filters = DOMAIN arg.filter
             /\ \A k \in DOMAIN arg.filter : request.Filters[k] = {arg.filter[k]})
       /\ (op = "Build" /\ "ImageBuild" \in Range(events) =>
             request.BuildArgs = arg.args)
C8_Witness ==
    /\ pc = "done" /\ op = "List"
    /\ DOMAIN arg.filter = {"dangling", "label"}
    /\ arg.filter["dangling"] = "true" /\ arg.filter["label"] = "a=b"
    /\ request.Filters["label"] = {"a=b"}

\* C9: Build creates the archive before contacting the engine: when CreateTar
\* fails Build returns that error and issues no request; when it succeeds the
\* archive is closed, once and last, on every later path.
C9_ArchiveBeforeEngine ==
    (Terminated /\ op = "Build")
    => LET t == CreateTar(arg.contextDirectory, defaultDockerfile, fs)
       IN /\ (t.err # Nil =>
                /\ ret.status = "returned"
                /\ ret.err = t.err
                /\ Count(events, Requests) = 0
                /\ "closeCtx" \notin Range(events))
          /\ (t.err = Nil =>
                /\ Len(events) >= 3
                /\ events[1] = "TarWithOptions"
                /\ events[2] = "ImageBuild"
                /\ Count(events, {"closeCtx"}) = 1
                /\ events[Len(events)] = "closeCtx")
C9_Witness ==
    /\ pc = "done" /\ op = "Build"
    /\ engine.err = Nil /\ ret.err = <<"JSONError", "E1">>
    /\ events = <<"TarWithOptions", "ImageBuild", "scan", "closeBody", "closeCtx">>

\* C10: in CreateTar, when the exclusion patterns match ".dockerignore" or
\* the context-relative Dockerfile name, both are added to the include list
\* after "."; otherwise, and when .dockerignore does not exist, the include
\* list is exactly ["."]; a .dockerignore that exists but cannot be opened
\* makes CreateTar fail.
C10_IncludeList ==
    (Terminated /\ op \in {"Build", "CreateTar"})
    => /\ (tarOptions.called =>
             /\ tarOptions.ExcludePatterns =
                  (IF fs.ignoreOpen = Nil THEN fs.patterns ELSE <<>>)
             /\ tarOptions.IncludeFiles =
                  (IF \/ Matches(DockerIgnoreName, tarOptions.ExcludePatterns)
                      \/ Matches(RelDockerfile, tarOptions.ExcludePatterns)
                   THEN <<DotPath, DockerIgnoreName, RelDockerfile>>
                   ELSE <<DotPath>>)
             /\ (IsNotExist(fs.ignoreOpen) => tarOptions.IncludeFiles = <<DotPath>>))
       /\ (fs.ignoreOpen # Nil /\ ~IsNotExist(fs.ignoreOpen) =>
             ~tarOptions.called /\ ret.err # Nil)
C10_Witness ==
    /\ pc = "done" /\ op = "CreateTar"
    /\ arg.dockerfile = <<"build", "Dockerfile">>
    /\ tarOptions.called
    /\ tarOptions.ExcludePatterns = <<[neg |-> FALSE, dirs |-> <<"build">>]>>
    /\ tarOptions.IncludeFiles = <<DotPath, DockerIgnoreName, <<"build", "Dockerfile">>>>

====
